---- MODULE Spec2Model ----
(***************************************************************************)
(* Model of yfile.h (xyurt/yfile): thin wrappers over the C runtime and    *)
(* Win32 file API.  Five behaviours are modelled, each with its own        *)
(* specification over one shared set of variables:                         *)
(*   SpecSize   file_get_size                                              *)
(*   SpecWrite  file_write                                                 *)
(*   SpecSD     file_secure_delete_ex (calls file_get_size and file_write) *)
(*   SpecDir    file_ensure_directory_ex                                   *)
(*   SpecLock   file_lock / file_unlock on handles of one file             *)
(* Every OS or C-runtime call that can fail fails nondeterministically.    *)
(* size_t is taken as 64 bits wide, so the cast of a non-negative int64_t  *)
(* file size (line 201) keeps its value.                                   *)
(***************************************************************************)
EXTENDS Integers, Sequences, FiniteSets, TLC

\* ---- bounds -------------------------------------------------------------
MaxSize == 3
MaxBuf == 3
MaxLen == 3
MaxQuot == 1
MaxPathLen == 5
MaxCalls == 2
NumHandles == 2

VARIABLES
  \* the file and the FILE stream on it
  exists, fsize, zeroed, fp, pos, ferr, flushed,
  \* file_get_size activation
  gs_pc, gs_fpnull, gs_current, gs_size, gs_ret, gs_pos0, gs_failed,
  \* file_write activation
  w_pc, w_fpnull, w_bufnull, w_len, w_total, w_ret, w_pos0, w_nfw, w_last,
  \* file_secure_delete_ex activation
  pc, fnNull, buffer_length, filesz, buflen, loopcount, i, remainingbytes,
  tempbuf, tempbuf_rem, ret,
  \* observers of file_secure_delete_ex
  nopen, nclose, ndelete, nwrites, nfull, nrem, reqsum, badfree, uaf,
  allocFailed, closedOk,
  \* file_ensure_directory_ex activation and the directory tree
  d_pc, path, pathNull, tmp, p, dirs, lastError, d_retc, d_ret, d_calls,
  d_rets, d_genuine, d_created,
  \* file_lock / file_unlock
  l_pc, l_held, l_req, l_ret, l_waited

streamVars == <<exists, fsize, zeroed, fp, pos, ferr, flushed>>
gsVars == <<gs_pc, gs_fpnull, gs_current, gs_size, gs_ret, gs_pos0, gs_failed>>
wVars == <<w_pc, w_fpnull, w_bufnull, w_len, w_total, w_ret, w_pos0, w_nfw, w_last>>
sdVars == <<pc, fnNull, buffer_length, filesz, buflen, loopcount, i,
            remainingbytes, tempbuf, tempbuf_rem, ret>>
obsVars == <<nopen, nclose, ndelete, nwrites, nfull, nrem, reqsum, badfree,
             uaf, allocFailed, closedOk>>
dirVars == <<d_pc, path, pathNull, tmp, p, dirs, lastError, d_retc, d_ret,
             d_calls, d_rets, d_genuine, d_created>>
lockVars == <<l_pc, l_held, l_req, l_ret, l_waited>>
vars == <<streamVars, gsVars, wVars, sdVars, obsVars, dirVars, lockVars>>

Max(a, b) == IF a > b THEN a ELSE b
Min(a, b) == IF a < b THEN a ELSE b

\* ---- idle values of the activations a specification does not use --------
GSIdle ==
  /\ gs_pc = "idle" /\ gs_fpnull = FALSE /\ gs_current = 0 /\ gs_size = 0
  /\ gs_ret = 0 /\ gs_pos0 = 0 /\ gs_failed = FALSE
WIdle ==
  /\ w_pc = "idle" /\ w_fpnull = FALSE /\ w_bufnull = FALSE /\ w_len = 0
  /\ w_total = 0 /\ w_ret = 0 /\ w_pos0 = 0 /\ w_nfw = 0 /\ w_last = 0
SDIdle ==
  /\ pc = "idle" /\ fnNull = FALSE /\ buffer_length = 0 /\ filesz = 0
  /\ buflen = 0 /\ loopcount = 0 /\ i = 0 /\ remainingbytes = 0
  /\ tempbuf = "none" /\ tempbuf_rem = "none" /\ ret = 0
ObsIdle ==
  /\ nopen = 0 /\ nclose = 0 /\ ndelete = 0 /\ nwrites = 0 /\ nfull = 0
  /\ nrem = 0 /\ reqsum = 0 /\ badfree = FALSE /\ uaf = FALSE
  /\ allocFailed = FALSE /\ closedOk = FALSE
DirIdle ==
  /\ d_pc = "idle" /\ path = <<>> /\ pathNull = FALSE /\ tmp = <<>> /\ p = 0
  /\ dirs = {} /\ lastError = "NONE" /\ d_retc = 0 /\ d_ret = 0
  /\ d_calls = 0 /\ d_rets = <<>> /\ d_genuine = FALSE /\ d_created = <<>>
LockIdle ==
  /\ l_pc = <<>> /\ l_held = <<>> /\ l_req = <<>> /\ l_ret = <<>>
  /\ l_waited = <<>>
StreamIdle ==
  /\ exists = FALSE /\ fsize = 0 /\ zeroed = {} /\ fp = "null" /\ pos = 0
  /\ ferr = FALSE /\ flushed = TRUE

\* =========================================================================
\* file_set_offset_ex / file_set_offset / file_get_offset / file_get_size
\* =========================================================================

\* file_set_offset_ex, line 259: the argument check that precedes _fseeki64.
SetOffsetExArgsOk(offset, origin, fpIsNull) ==
  ~ ( (origin # "SEEK_CUR" /\ origin # "SEEK_END"
         /\ (origin # "SEEK_SET" \/ offset < 0))
      \/ fpIsNull )

\* file_set_offset, lines 267-270: rejects a negative offset, then SEEK_SET.
SetOffsetArgsOk(offset, fpIsNull) ==
  IF offset < 0 THEN FALSE ELSE SetOffsetExArgsOk(offset, "SEEK_SET", fpIsNull)

\* if (fp == NULL) return -1;
GS_Entry ==
  /\ gs_pc = "entry"
  /\ IF gs_fpnull
       THEN gs_ret' = -1 /\ gs_pc' = "done"
       ELSE gs_ret' = gs_ret /\ gs_pc' = "tell1"
  /\ gs_pos0' = pos
  /\ gs_failed' = FALSE
  /\ UNCHANGED <<gs_fpnull, gs_current, gs_size>>
  /\ UNCHANGED <<streamVars, wVars, sdVars, obsVars, dirVars, lockVars>>

\* if ((current = file_get_offset(fp)) == -1) return -1;
GS_Tell1 ==
  /\ gs_pc = "tell1"
  /\ \E ok \in BOOLEAN :
       IF ok
         THEN gs_current' = pos /\ gs_pc' = "seekend"
              /\ UNCHANGED <<gs_ret, gs_failed>>
         ELSE gs_current' = -1 /\ gs_ret' = -1 /\ gs_failed' = TRUE
              /\ gs_pc' = "done"
  /\ UNCHANGED <<gs_fpnull, gs_size, gs_pos0>>
  /\ UNCHANGED <<streamVars, wVars, sdVars, obsVars, dirVars, lockVars>>

\* if (file_set_offset_ex(fp, 0, SEEK_END) != 0) return -1;
\* A failed _fseeki64 leaves the position indeterminate.
GS_SeekEnd ==
  /\ gs_pc = "seekend"
  /\ \E ok \in BOOLEAN :
       IF ok /\ SetOffsetExArgsOk(0, "SEEK_END", gs_fpnull)
         THEN pos' = fsize /\ gs_pc' = "tell2"
              /\ UNCHANGED <<gs_ret, gs_failed>>
         ELSE /\ \E q \in 0..MaxSize : pos' = q
              /\ gs_ret' = -1 /\ gs_failed' = TRUE /\ gs_pc' = "done"
  /\ UNCHANGED <<gs_fpnull, gs_current, gs_size, gs_pos0>>
  /\ UNCHANGED <<exists, fsize, zeroed, fp, ferr, flushed>>
  /\ UNCHANGED <<wVars, sdVars, obsVars, dirVars, lockVars>>

\* if ((size = file_get_offset(fp)) == -1) return -1;
GS_Tell2 ==
  /\ gs_pc = "tell2"
  /\ \E ok \in BOOLEAN :
       IF ok
         THEN gs_size' = pos /\ gs_pc' = "seekback"
              /\ UNCHANGED <<gs_ret, gs_failed>>
         ELSE gs_size' = -1 /\ gs_ret' = -1 /\ gs_failed' = TRUE
              /\ gs_pc' = "done"
  /\ UNCHANGED <<gs_fpnull, gs_current, gs_pos0>>
  /\ UNCHANGED <<streamVars, wVars, sdVars, obsVars, dirVars, lockVars>>

\* The variant that returns size without seeking back to current.
GS_SeekBack_NoRestore ==
  /\ gs_pc = "seekback"
  /\ gs_ret' = gs_size /\ gs_pc' = "done"
  /\ UNCHANGED <<gs_fpnull, gs_current, gs_size, gs_pos0, gs_failed>>
  /\ UNCHANGED <<streamVars, wVars, sdVars, obsVars, dirVars, lockVars>>

\* if (file_set_offset(fp, current) != 0) return -1;  return size;
GS_SeekBack ==
  /\ gs_pc = "seekback"
  /\ \E ok \in BOOLEAN :
       IF ok /\ SetOffsetArgsOk(gs_current, gs_fpnull)
         THEN pos' = gs_current /\ gs_ret' = gs_size
              /\ UNCHANGED gs_failed
         ELSE /\ \E q \in 0..MaxSize : pos' = q
              /\ gs_ret' = -1 /\ gs_failed' = TRUE
  /\ gs_pc' = "done"
  /\ UNCHANGED <<gs_fpnull, gs_current, gs_size, gs_pos0>>
  /\ UNCHANGED <<exists, fsize, zeroed, fp, ferr, flushed>>
  /\ UNCHANGED <<wVars, sdVars, obsVars, dirVars, lockVars>>

\* file_get_size called on an open stream at any position, or on NULL.
InitSize ==
  /\ exists = TRUE /\ fsize \in 0..MaxSize /\ zeroed = {}
  /\ fp = "open" /\ pos \in 0..MaxSize /\ ferr = FALSE /\ flushed = TRUE
  /\ gs_pc = "entry" /\ gs_fpnull \in BOOLEAN /\ gs_current = 0
  /\ gs_size = 0 /\ gs_ret = 0 /\ gs_pos0 = 0 /\ gs_failed = FALSE
  /\ WIdle /\ SDIdle /\ ObsIdle /\ DirIdle /\ LockIdle

NextSize == GS_Entry \/ GS_Tell1 \/ GS_SeekEnd \/ GS_Tell2 \/ GS_SeekBack

SpecSize == InitSize /\ [][NextSize]_vars

\* C8: when file_get_size returns a value other than -1 it is the offset of
\* end-of-file and the position is the one before the call; when any of the
\* four sub-steps failed it returns -1.
C8_GetSizeRestores ==
  gs_pc = "done" =>
    /\ (gs_ret # -1 => gs_ret = fsize /\ pos = gs_pos0)
    /\ (gs_failed => gs_ret = -1)

\* A successful file_get_size that started away from end-of-file.
C8_Witness ==
  gs_pc = "done" /\ gs_ret # -1 /\ gs_pos0 # fsize /\ fsize > 0


\* =========================================================================
\* file_write
\* =========================================================================

\* The variant that breaks out of the loop without consulting ferror.
FileWriteZeroProgress_NoFerror(total, errflag) == total

\* Lines 397-402: fwrite returned 0.  With the error indicator set the call
\* returns 0, otherwise the loop is left and the total so far is returned.
FileWriteZeroProgress(total, errflag) == IF errflag THEN 0 ELSE total

\* if (fp == NULL || buf == NULL || len == 0) return 0;  size_t total = 0;
W_Entry ==
  /\ w_pc = "entry"
  /\ IF w_fpnull \/ w_bufnull \/ w_len = 0
       THEN w_ret' = 0 /\ w_pc' = "done"
       ELSE w_ret' = w_ret /\ w_pc' = "loop"
  /\ w_total' = 0
  /\ UNCHANGED <<w_fpnull, w_bufnull, w_len, w_pos0, w_nfw, w_last>>
  /\ UNCHANGED <<streamVars, gsVars, sdVars, obsVars, dirVars, lockVars>>

\* One iteration of while (total < len): fwrite transfers between 0 and
\* len - total bytes; a short count may or may not come with the stream's
\* error indicator set, a full count leaves the indicator as it was.
W_Fwrite ==
  /\ w_pc = "loop"
  /\ w_total < w_len
  /\ \E written \in 0..(w_len - w_total), err \in BOOLEAN :
       /\ (written = w_len - w_total => ~err)
       /\ pos' = pos + written
       /\ zeroed' = zeroed \cup {o \in 0..(pos + written - 1) : o >= pos}
       /\ fsize' = Max(fsize, pos + written)
       /\ ferr' = (ferr \/ err)
       /\ flushed' = (flushed /\ written = 0)
       /\ w_last' = written
       /\ w_nfw' = w_nfw + 1
       /\ IF written = 0
            THEN /\ w_total' = w_total
                 /\ w_ret' = FileWriteZeroProgress(w_total, ferr')
                 /\ w_pc' = "done"
            ELSE /\ w_total' = w_total + written
                 /\ IF w_total' < w_len
                      THEN w_ret' = w_ret /\ w_pc' = "loop"
                      ELSE w_ret' = w_total' /\ w_pc' = "done"
  /\ UNCHANGED <<w_fpnull, w_bufnull, w_len, w_pos0>>
  /\ UNCHANGED <<exists, fp>>
  /\ UNCHANGED <<gsVars, sdVars, obsVars, dirVars, lockVars>>

\* file_write called with any arguments on a stream opened "r+b", whose
\* error indicator may already be set by an earlier operation.
InitWrite ==
  /\ exists = TRUE /\ fsize \in 0..1 /\ zeroed = {}
  /\ fp = "open" /\ pos = 0 /\ ferr \in BOOLEAN /\ flushed = TRUE
  /\ w_pc = "entry" /\ w_fpnull \in BOOLEAN /\ w_bufnull \in BOOLEAN
  /\ w_len \in 0..MaxLen /\ w_total = 0 /\ w_ret = 0 /\ w_pos0 = 0
  /\ w_nfw = 0 /\ w_last = 0
  /\ GSIdle /\ SDIdle /\ ObsIdle /\ DirIdle /\ LockIdle

NextWrite == W_Entry \/ W_Fwrite

SpecWrite == InitWrite /\ [][NextWrite]_vars

W_ArgsInvalid == w_fpnull \/ w_bufnull \/ w_len = 0

\* C7 as stated: file_write returns 0 only for a null fp or buf, len = 0 or
\* an fwrite error (ferror set); in every other run it returns the number
\* of bytes written, between 1 and len.
C7_ZeroOnlyOnError ==
  w_pc = "done" =>
    IF W_ArgsInvalid \/ ferr
      THEN TRUE
      ELSE w_ret >= 1 /\ w_ret <= w_len /\ w_ret = pos - w_pos0

\* C7 amended: file_write returns 0 exactly when fp or buf is null, len is
\* 0, or an fwrite call made zero progress either with the error indicator
\* set or as the very first fwrite call (nothing written at all); in every
\* other run it returns the number of bytes written, between 1 and len.
C7_ZeroOnErrorOrNoProgress ==
  w_pc = "done" =>
    /\ (w_ret = 0) <=>
         \/ W_ArgsInvalid
         \/ (w_nfw >= 1 /\ w_last = 0 /\ (ferr \/ w_nfw = 1))
    /\ (w_ret # 0 => w_ret >= 1 /\ w_ret <= w_len /\ w_ret = pos - w_pos0)

\* A partial write followed by a zero-progress fwrite without an error.
C7_Witness ==
  /\ w_pc = "done" /\ w_nfw >= 2 /\ w_last = 0 /\ ~ferr
  /\ w_ret >= 1 /\ w_ret < w_len


\* =========================================================================
\* file_secure_delete_ex
\* =========================================================================

\* size_t buflen = filesz > buffer_length ? buffer_length : filesz;
BufLen(fsz, blen) == IF fsz > blen THEN blen ELSE fsz

\* size_t loopcount = (size_t)(filesz / buflen);   (buflen # 0)
LoopCount(fsz, bl) == fsz \div bl

\* The variant that forgets the tail after the full chunks.
RemainingBytes_NoTail(fsz, lc, bl) == 0

\* size_t remainingbytes = filesz - (loopcount * buflen);
RemainingBytes(fsz, lc, bl) == fsz - (lc * bl)

\* return r;
Exit(r) == ret' = r /\ pc' = "done"

\* file_close(fp): fclose releases the stream whether or not it reports
\* success.
FClose ==
  /\ fp' = "closed"
  /\ nclose' = nclose + 1
  /\ uaf' = (uaf \/ fp # "open")

\* free(tempbuf) / free(tempbuf_rem)
FreeTemp == tempbuf' = "freed" /\ badfree' = (badfree \/ tempbuf # "alloc")
FreeRem ==
  tempbuf_rem' = "freed" /\ badfree' = (badfree \/ tempbuf_rem # "alloc")

\* file_write(fp, buf, len) is entered.
CallFileWrite(len) ==
  /\ w_pc' = "entry" /\ w_fpnull' = FALSE /\ w_bufnull' = FALSE
  /\ w_len' = len /\ w_total' = 0 /\ w_ret' = 0 /\ w_pos0' = pos
  /\ w_nfw' = 0 /\ w_last' = 0

\* Lines 187-191: the null check and file_open_utf8(filename, "r+b"), which
\* fails when the file does not exist or the open (or one of its two
\* allocations) fails.
SD_Entry ==
  /\ pc = "start"
  /\ IF fnNull
       THEN Exit(-1) /\ UNCHANGED <<fp, pos, nopen>>
       ELSE \E ok \in BOOLEAN :
              IF exists /\ ok
                THEN /\ fp' = "open" /\ pos' = 0 /\ nopen' = nopen + 1
                     /\ pc' = "getsize" /\ ret' = ret
                ELSE Exit(-1) /\ UNCHANGED <<fp, pos, nopen>>
  /\ UNCHANGED <<exists, fsize, zeroed, ferr, flushed>>
  /\ UNCHANGED <<fnNull, buffer_length, filesz, buflen, loopcount, i,
                 remainingbytes, tempbuf, tempbuf_rem>>
  /\ UNCHANGED <<nclose, ndelete, nwrites, nfull, nrem, reqsum, badfree,
                 uaf, allocFailed, closedOk>>
  /\ UNCHANGED <<gsVars, wVars, dirVars, lockVars>>

\* Line 194: file_get_size(fp) is entered.
SD_GetSize ==
  /\ pc = "getsize"
  /\ gs_pc' = "entry" /\ gs_fpnull' = FALSE
  /\ pc' = "getsize_ret"
  /\ uaf' = (uaf \/ fp # "open")
  /\ UNCHANGED <<gs_current, gs_size, gs_ret, gs_pos0, gs_failed>>
  /\ UNCHANGED <<fnNull, buffer_length, filesz, buflen, loopcount, i,
                 remainingbytes, tempbuf, tempbuf_rem, ret>>
  /\ UNCHANGED <<nopen, nclose, ndelete, nwrites, nfull, nrem, reqsum,
                 badfree, allocFailed, closedOk>>
  /\ UNCHANGED <<streamVars, wVars, dirVars, lockVars>>

\* Lines 194-204: file_get_size has returned.  A negative size closes and
\* fails; size 0 closes, calls file_delete and returns 0 whatever the two
\* calls reported; otherwise the chunk size is chosen.
SD_GetSizeRet ==
  /\ pc = "getsize_ret" /\ gs_pc = "done"
  /\ gs_pc' = "idle"
  /\ IF gs_ret < 0
       THEN /\ FClose /\ Exit(-1)
            /\ UNCHANGED <<exists, ndelete, filesz, buflen>>
       ELSE IF gs_ret = 0
         THEN /\ FClose
              /\ \E ok \in BOOLEAN :
                   exists' = (IF ok THEN FALSE ELSE exists)
              /\ ndelete' = ndelete + 1
              /\ Exit(0)
              /\ UNCHANGED <<filesz, buflen>>
         ELSE /\ filesz' = gs_ret
              /\ buflen' = BufLen(gs_ret, buffer_length)
              /\ pc' = "malloc"
              /\ UNCHANGED <<exists, fp, ndelete, nclose, uaf, ret>>
  /\ UNCHANGED <<fsize, zeroed, pos, ferr, flushed>>
  /\ UNCHANGED <<gs_fpnull, gs_current, gs_size, gs_ret, gs_pos0, gs_failed>>
  /\ UNCHANGED <<fnNull, buffer_length, loopcount, i, remainingbytes,
                 tempbuf, tempbuf_rem>>
  /\ UNCHANGED <<nopen, nwrites, nfull, nrem, reqsum, badfree, allocFailed,
                 closedOk>>
  /\ UNCHANGED <<wVars, dirVars, lockVars>>

\* Lines 207-209: malloc(buflen), which may return NULL for any size (and
\* either NULL or a pointer for size 0), then memset.
SD_Malloc ==
  /\ pc = "malloc"
  /\ \E ok \in BOOLEAN :
       IF ok
         THEN /\ tempbuf' = "alloc" /\ pc' = "divide"
              /\ UNCHANGED <<fp, nclose, uaf, ret, allocFailed>>
         ELSE /\ allocFailed' = TRUE /\ FClose /\ Exit(-1)
              /\ UNCHANGED tempbuf
  /\ UNCHANGED <<exists, fsize, zeroed, pos, ferr, flushed>>
  /\ UNCHANGED <<fnNull, buffer_length, filesz, buflen, loopcount, i,
                 remainingbytes, tempbuf_rem>>
  /\ UNCHANGED <<nopen, ndelete, nwrites, nfull, nrem, reqsum, badfree,
                 closedOk>>
  /\ UNCHANGED <<gsVars, wVars, dirVars, lockVars>>

\* Line 212: filesz / buflen.  With buflen = 0 the division is undefined:
\* the build either traps (x86/x64 divide error, the process dies inside
\* the function) or yields some quotient (0 on hardware whose divide
\* instruction does not trap).
SD_Divide ==
  /\ pc = "divide"
  /\ IF buflen = 0
       THEN \/ pc' = "crashed" /\ UNCHANGED loopcount
            \/ \E q \in 0..MaxQuot : loopcount' = q /\ pc' = "seek"
       ELSE loopcount' = LoopCount(filesz, buflen) /\ pc' = "seek"
  /\ UNCHANGED <<fnNull, buffer_length, filesz, buflen, i, remainingbytes,
                 tempbuf, tempbuf_rem, ret>>
  /\ UNCHANGED <<streamVars, gsVars, wVars, obsVars, dirVars, lockVars>>

\* The variant whose failure branch closes without freeing tempbuf.
SD_Seek_NoFree ==
  /\ pc = "seek"
  /\ \E ok \in BOOLEAN :
       IF ok /\ SetOffsetArgsOk(0, FALSE)
         THEN /\ pos' = 0 /\ pc' = "loop" /\ uaf' = (uaf \/ fp # "open")
              /\ UNCHANGED <<fp, nclose, ret>>
         ELSE /\ \E q \in 0..MaxSize : pos' = q
              /\ FClose /\ Exit(-1)
  /\ UNCHANGED <<tempbuf, badfree>>
  /\ UNCHANGED <<exists, fsize, zeroed, ferr, flushed>>
  /\ UNCHANGED <<fnNull, buffer_length, filesz, buflen, loopcount, i,
                 remainingbytes, tempbuf_rem>>
  /\ UNCHANGED <<nopen, ndelete, nwrites, nfull, nrem, reqsum, allocFailed,
                 closedOk>>
  /\ UNCHANGED <<gsVars, wVars, dirVars, lockVars>>

\* Line 215: if (file_set_offset(fp, 0) != 0) { free; close; return -1; }
SD_Seek ==
  /\ pc = "seek"
  /\ \E ok \in BOOLEAN :
       IF ok /\ SetOffsetArgsOk(0, FALSE)
         THEN /\ pos' = 0 /\ pc' = "loop" /\ uaf' = (uaf \/ fp # "open")
              /\ UNCHANGED <<fp, nclose, ret, tempbuf, badfree>>
         ELSE /\ \E q \in 0..MaxSize : pos' = q
              /\ FreeTemp /\ FClose /\ Exit(-1)
  /\ UNCHANGED <<exists, fsize, zeroed, ferr, flushed>>
  /\ UNCHANGED <<fnNull, buffer_length, filesz, buflen, loopcount, i,
                 remainingbytes, tempbuf_rem>>
  /\ UNCHANGED <<nopen, ndelete, nwrites, nfull, nrem, reqsum, allocFailed,
                 closedOk>>
  /\ UNCHANGED <<gsVars, wVars, dirVars, lockVars>>

\* Lines 218-220 and 226-230: the loop test.  While i < loopcount a full
\* chunk is handed to file_write; after the loop tempbuf is freed and the
\* remainder computed.
SD_Loop ==
  /\ pc = "loop"
  /\ IF i < loopcount
       THEN /\ CallFileWrite(buflen)
            /\ uaf' = (uaf \/ fp # "open" \/ tempbuf # "alloc")
            /\ nwrites' = nwrites + 1 /\ nfull' = nfull + 1
            /\ reqsum' = reqsum + buflen
            /\ pc' = "loop_ret"
            /\ UNCHANGED <<tempbuf, badfree, remainingbytes>>
       ELSE /\ FreeTemp
            /\ remainingbytes' = RemainingBytes(filesz, loopcount, buflen)
            /\ pc' = (IF remainingbytes' > 0 THEN "malloc_rem" ELSE "flush")
            /\ UNCHANGED <<uaf, nwrites, nfull, reqsum>>
            /\ UNCHANGED wVars
  /\ UNCHANGED <<fnNull, buffer_length, filesz, buflen, loopcount, i,
                 tempbuf_rem, ret>>
  /\ UNCHANGED <<nopen, nclose, ndelete, nrem, allocFailed, closedOk>>
  /\ UNCHANGED <<streamVars, gsVars, dirVars, lockVars>>

\* Lines 220-225: file_write has returned in the loop; 0 frees, closes and
\* fails, any other count goes on to the next chunk.
SD_LoopRet ==
  /\ pc = "loop_ret" /\ w_pc = "done"
  /\ w_pc' = "idle"
  /\ IF w_ret = 0
       THEN /\ FreeTemp /\ FClose /\ Exit(-1)
            /\ UNCHANGED i
       ELSE /\ i' = i + 1 /\ pc' = "loop"
            /\ UNCHANGED <<tempbuf, badfree, fp, nclose, uaf, ret>>
  /\ UNCHANGED <<exists, fsize, zeroed, pos, ferr, flushed>>
  /\ UNCHANGED <<w_fpnull, w_bufnull, w_len, w_total, w_ret, w_pos0, w_nfw,
                 w_last>>
  /\ UNCHANGED <<fnNull, buffer_length, filesz, buflen, loopcount,
                 remainingbytes, tempbuf_rem>>
  /\ UNCHANGED <<nopen, ndelete, nwrites, nfull, nrem, reqsum, allocFailed,
                 closedOk>>
  /\ UNCHANGED <<gsVars, dirVars, lockVars>>

\* Lines 232-237: malloc(remainingbytes), memset, and file_write is entered
\* with the remainder.
SD_MallocRem ==
  /\ pc = "malloc_rem"
  /\ \E ok \in BOOLEAN :
       IF ok
         THEN /\ tempbuf_rem' = "alloc"
              /\ CallFileWrite(remainingbytes)
              /\ uaf' = (uaf \/ fp # "open")
              /\ nwrites' = nwrites + 1 /\ nrem' = nrem + 1
              /\ reqsum' = reqsum + remainingbytes
              /\ pc' = "rem_ret"
              /\ UNCHANGED <<fp, nclose, ret, allocFailed>>
         ELSE /\ allocFailed' = TRUE /\ FClose /\ Exit(-1)
              /\ UNCHANGED <<tempbuf_rem, nwrites, nrem, reqsum>>
              /\ UNCHANGED wVars
  /\ UNCHANGED <<exists, fsize, zeroed, pos, ferr, flushed>>
  /\ UNCHANGED <<fnNull, buffer_length, filesz, buflen, loopcount, i,
                 remainingbytes, tempbuf>>
  /\ UNCHANGED <<nopen, ndelete, nfull, badfree, closedOk>>
  /\ UNCHANGED <<gsVars, dirVars, lockVars>>

\* Lines 237-243: file_write of the remainder has returned.
SD_RemRet ==
  /\ pc = "rem_ret" /\ w_pc = "done"
  /\ w_pc' = "idle"
  /\ FreeRem
  /\ IF w_ret = 0
       THEN FClose /\ Exit(-1)
       ELSE pc' = "flush" /\ UNCHANGED <<fp, nclose, uaf, ret>>
  /\ UNCHANGED <<exists, fsize, zeroed, pos, ferr, flushed>>
  /\ UNCHANGED <<w_fpnull, w_bufnull, w_len, w_total, w_ret, w_pos0, w_nfw,
                 w_last>>
  /\ UNCHANGED <<fnNull, buffer_length, filesz, buflen, loopcount, i,
                 remainingbytes, tempbuf>>
  /\ UNCHANGED <<nopen, ndelete, nwrites, nfull, nrem, reqsum, allocFailed,
                 closedOk>>
  /\ UNCHANGED <<gsVars, dirVars, lockVars>>

\* Line 246: if (file_flush(fp) != 0) { file_close(fp); return -1; }
SD_Flush ==
  /\ pc = "flush"
  /\ \E ok \in BOOLEAN :
       IF ok
         THEN /\ flushed' = TRUE /\ pc' = "close"
              /\ uaf' = (uaf \/ fp # "open")
              /\ UNCHANGED <<fp, nclose, ret>>
         ELSE FClose /\ Exit(-1) /\ UNCHANGED flushed
  /\ UNCHANGED <<exists, fsize, zeroed, pos, ferr>>
  /\ UNCHANGED <<fnNull, buffer_length, filesz, buflen, loopcount, i,
                 remainingbytes, tempbuf, tempbuf_rem>>
  /\ UNCHANGED <<nopen, ndelete, nwrites, nfull, nrem, reqsum, badfree,
                 allocFailed, closedOk>>
  /\ UNCHANGED <<gsVars, wVars, dirVars, lockVars>>

\* Line 249: if (file_close(fp) == -1) { return -1; }
SD_Close ==
  /\ pc = "close"
  /\ FClose
  /\ \E ok \in BOOLEAN :
       IF ok
         THEN closedOk' = TRUE /\ pc' = "delete" /\ UNCHANGED ret
         ELSE Exit(-1) /\ UNCHANGED closedOk
  /\ UNCHANGED <<exists, fsize, zeroed, pos, ferr, flushed>>
  /\ UNCHANGED <<fnNull, buffer_length, filesz, buflen, loopcount, i,
                 remainingbytes, tempbuf, tempbuf_rem>>
  /\ UNCHANGED <<nopen, ndelete, nwrites, nfull, nrem, reqsum, badfree,
                 allocFailed>>
  /\ UNCHANGED <<gsVars, wVars, dirVars, lockVars>>

\* Line 252: return file_delete(filename);  DeleteFileA removes the path
\* when it succeeds.
SD_Delete ==
  /\ pc = "delete"
  /\ ndelete' = ndelete + 1
  /\ \E ok \in BOOLEAN :
       IF ok THEN exists' = FALSE /\ Exit(0)
             ELSE exists' = exists /\ Exit(-1)
  /\ UNCHANGED <<fsize, zeroed, fp, pos, ferr, flushed>>
  /\ UNCHANGED <<fnNull, buffer_length, filesz, buflen, loopcount, i,
                 remainingbytes, tempbuf, tempbuf_rem>>
  /\ UNCHANGED <<nopen, nclose, nwrites, nfull, nrem, reqsum, badfree, uaf,
                 allocFailed, closedOk>>
  /\ UNCHANGED <<gsVars, wVars, dirVars, lockVars>>

\* file_secure_delete_ex called with any filename (null, missing or a file
\* of any size up to MaxSize) and any buffer_length up to MaxBuf.
InitSD ==
  /\ exists \in BOOLEAN /\ fsize \in 0..MaxSize /\ zeroed = {}
  /\ fp = "null" /\ pos = 0 /\ ferr = FALSE /\ flushed = TRUE
  /\ pc = "start" /\ fnNull \in BOOLEAN /\ buffer_length \in 0..MaxBuf
  /\ filesz = 0 /\ buflen = 0 /\ loopcount = 0 /\ i = 0
  /\ remainingbytes = 0 /\ tempbuf = "none" /\ tempbuf_rem = "none"
  /\ ret = 0
  /\ GSIdle /\ WIdle /\ ObsIdle /\ DirIdle /\ LockIdle

NextSD ==
  \/ SD_Entry \/ SD_GetSize \/ SD_GetSizeRet \/ SD_Malloc \/ SD_Divide
  \/ SD_Seek \/ SD_Loop \/ SD_LoopRet \/ SD_MallocRem \/ SD_RemRet
  \/ SD_Flush \/ SD_Close \/ SD_Delete
  \/ GS_Entry \/ GS_Tell1 \/ GS_SeekEnd \/ GS_Tell2 \/ GS_SeekBack
  \/ W_Entry \/ W_Fwrite

SpecSD == InitSD /\ [][NextSD]_vars

AllZeroed == \A o \in 0..(fsize - 1) : o \in zeroed
CeilDiv(a, b) == (a + b - 1) \div b

\* C1: on a file of size S > 0 the delete is attempted only after all S
\* bytes were overwritten, the stream flushed and the handle closed
\* successfully; a run whose overwrite covers fewer than S bytes returns -1
\* and never calls file_delete.  Stated for buffer_length >= 1, where the
\* function has no undefined step.
C1_DeleteOnlyAfterFullOverwrite ==
  fsize > 0 /\ buffer_length >= 1 =>
    /\ (ndelete > 0 => AllZeroed /\ flushed /\ closedOk)
    /\ (pc = "done" /\ ~AllZeroed => ret = -1 /\ ndelete = 0)

\* C2 as stated: every call on a file of size S with chunk length C makes
\* exactly ceil(S/C) file_write calls, floor(S/min(C,S)) full chunks plus a
\* remainder write iff S mod C # 0, the written lengths summing to S, and
\* on success the path no longer exists.
C2_AlwaysCeilWrites ==
  pc = "done" /\ nopen = 1 /\ fsize > 0 /\ buffer_length >= 1 =>
    /\ nwrites = CeilDiv(fsize, buffer_length)
    /\ nfull = fsize \div Min(buffer_length, fsize)
    /\ (nrem = 1 <=> fsize % buffer_length # 0)
    /\ Cardinality(zeroed) = fsize
    /\ (ret = 0 => ~exists)

\* C2 amended: a call on a file of size S > 0 that returns success has made
\* file_write calls whose requested lengths sum to S and the path no longer
\* exists; for a chunk length C >= 1 these are exactly ceil(S/C) calls,
\* floor(S/min(C,S)) full chunks plus one remainder write iff
\* S mod min(C,S) # 0, and a call that fails has made at most ceil(S/C).
C2_CeilWritesOnSuccess ==
  pc = "done" /\ nopen = 1 /\ fsize > 0 =>
    /\ ret = 0 =>
         /\ reqsum = fsize
         /\ ~exists
         /\ buffer_length >= 1 =>
              /\ nwrites = CeilDiv(fsize, buffer_length)
              /\ nfull = fsize \div Min(buffer_length, fsize)
              /\ (nrem = 1 <=> fsize % Min(buffer_length, fsize) # 0)
    /\ buffer_length >= 1 => nwrites <= CeilDiv(fsize, buffer_length)

\* A successful secure delete of 3 bytes in chunks of 2: one full chunk and
\* a remainder write.
C2_Witness ==
  /\ pc = "done" /\ ret = 0 /\ fsize = 3 /\ buffer_length = 2
  /\ nwrites = 2 /\ nfull = 1 /\ nrem = 1

\* C3: a call on a zero-length file that returns success made no file_write
\* call and the path no longer exists.
C3_EmptyFileDeleted ==
  pc = "done" /\ nopen = 1 /\ fsize = 0 /\ ret = 0 =>
    nwrites = 0 /\ ~exists

\* C9: on every exit path each zero buffer that was allocated has been freed
\* exactly once and the handle that was opened closed exactly once, neither
\* is used after its release, and an allocation failure of either buffer
\* closes the handle and returns -1 without deleting.
C9_ReleasedOnEveryExit ==
  /\ ~badfree /\ ~uaf /\ nclose <= nopen
  /\ pc = "done" =>
       /\ tempbuf # "alloc" /\ tempbuf_rem # "alloc"
       /\ nclose = nopen /\ fp # "open"
       /\ allocFailed => ret = -1 /\ ndelete = 0 /\ fp = "closed"

\* The remainder buffer could not be allocated after the full chunks were
\* written and tempbuf freed.
C9_Witness ==
  pc = "done" /\ allocFailed /\ tempbuf = "freed" /\ nfull >= 1

\* C10: the chunk-count division is reached only with buflen >= 1.
C10_NoDivisionByZero ==
  pc = "divide" => buflen >= 1


\* =========================================================================
\* file_ensure_directory_ex
\* =========================================================================

Chars == {"a", "b", "/", "\\"}
Seps == {"/", "\\"}
NUL == "NUL"

\* The C string held in a buffer: the characters before the first NUL.
RECURSIVE CStr(_)
CStr(buf) ==
  IF buf = <<>> \/ Head(buf) = NUL THEN <<>>
  ELSE <<Head(buf)>> \o CStr(Tail(buf))

\* The directory a path string names: its components, split at either
\* separator, empty components dropped.
RECURSIVE Split(_, _)
Split(str, cur) ==
  IF str = <<>> THEN (IF cur = <<>> THEN <<>> ELSE <<cur>>)
  ELSE IF Head(str) \in Seps
         THEN (IF cur = <<>> THEN <<>> ELSE <<cur>>) \o Split(Tail(str), <<>>)
         ELSE Split(Tail(str), Append(cur, Head(str)))
Components(str) == Split(str, <<>>)

Front(sq) == SubSeq(sq, 1, Len(sq) - 1)

\* CreateDirectoryA(str) for a path with at least one component: the error
\* it fails with, or "OK" when the directory is created.  A directory that
\* is missing under an existing parent may still be refused.
CreateDirError(str, ds) ==
  LET c == Components(str) IN
    IF c \in ds THEN {"ALREADY_EXISTS"}
    ELSE IF Front(c) # <<>> /\ Front(c) \notin ds THEN {"PATH_NOT_FOUND"}
    ELSE {"OK", "ACCESS_DENIED"}

\* create_directory_part_ex, lines 324-326: 0 when CreateDirectoryA
\* succeeded, 1 otherwise.
CreateDirectoryPartRet(outcome) == IF outcome = "OK" THEN 0 ELSE 1

\* file_last_error_is, lines 435-437: 0 if the last error equals err, 1 if
\* not.
FileLastErrorIs(last, err) == IF last = err THEN 0 ELSE 1

\* Lines 365-372: the result of file_ensure_directory_ex from the leaf
\* creation's return value and the last error.
EnsureResult(retc, last) ==
  IF retc # 0
    THEN (IF FileLastErrorIs(last, "ALREADY_EXISTS") # 0 THEN 0 ELSE -1)
    ELSE 0

\* Every prefix of the path's components is a directory.
AllExist(str, ds) ==
  LET c == Components(str) IN
    \A k \in 1..Len(c) : SubSeq(c, 1, k) \in ds

\* One CreateDirectoryA call on the string in buffer b.
CreateDir(b) ==
  \E outcome \in CreateDirError(CStr(b), dirs) :
    /\ d_retc' = CreateDirectoryPartRet(outcome)
    /\ IF outcome = "OK"
         THEN /\ dirs' = dirs \cup {Components(CStr(b))}
              /\ d_created' = Append(d_created, Components(CStr(b)))
              /\ UNCHANGED <<lastError, d_genuine>>
         ELSE /\ lastError' = outcome
              /\ d_genuine' = (d_genuine \/ outcome # "ALREADY_EXISTS")
              /\ UNCHANGED <<dirs, d_created>>

DirReturn(r, existed, reached) ==
  /\ d_ret' = r
  /\ d_pc' = "done"
  /\ d_calls' = d_calls + 1
  /\ d_rets' = Append(d_rets, [ret |-> r, existed |-> existed,
                               genuine |-> d_genuine', reached |-> reached])

\* Lines 337-349: the null/empty check, the copy into tmp (malloc may
\* fail) and the removal of one trailing separator.
D_Entry ==
  /\ d_pc = "entry"
  /\ IF pathNull \/ path = <<>>
       THEN /\ UNCHANGED <<tmp, p, d_genuine>>
            /\ DirReturn(-1, FALSE, FALSE)
       ELSE \E ok \in BOOLEAN :
              IF ok
                THEN /\ tmp' = (IF path[Len(path)] \in Seps
                                  THEN [path EXCEPT ![Len(path)] = NUL]
                                  ELSE path) \o <<NUL>>
                     /\ p' = 2
                     /\ d_pc' = "scan"
                     /\ UNCHANGED <<d_ret, d_calls, d_rets, d_genuine>>
                ELSE /\ UNCHANGED <<tmp, p, d_genuine>>
                     /\ DirReturn(-1, FALSE, FALSE)
  /\ UNCHANGED <<path, pathNull, dirs, lastError, d_retc, d_created>>
  /\ UNCHANGED <<streamVars, gsVars, wVars, sdVars, obsVars, lockVars>>

\* Lines 352-357: one iteration of the scan.  At a separator the string is
\* cut there, the prefix is created with its result ignored, and the
\* separator is put back as a backslash.
D_Scan ==
  /\ d_pc = "scan"
  /\ tmp[p] # NUL
  /\ IF tmp[p] \notin Seps
       THEN UNCHANGED <<tmp, dirs, lastError, d_retc, d_genuine, d_created>>
       ELSE /\ CreateDir([tmp EXCEPT ![p] = NUL])
            /\ tmp' = [tmp EXCEPT ![p] = "\\"]
  /\ p' = p + 1
  /\ UNCHANGED <<d_pc, path, pathNull, d_ret, d_calls, d_rets>>
  /\ UNCHANGED <<streamVars, gsVars, wVars, sdVars, obsVars, lockVars>>

\* Lines 360-372: the scan has reached the terminator; the whole path is
\* created, tmp freed and the result derived from the last error.
D_Leaf ==
  /\ d_pc = "scan"
  /\ tmp[p] = NUL
  /\ CreateDir(tmp)
  /\ DirReturn(EnsureResult(d_retc', lastError'), AllExist(CStr(tmp), dirs),
               TRUE)
  /\ UNCHANGED <<path, pathNull, tmp, p>>
  /\ UNCHANGED <<streamVars, gsVars, wVars, sdVars, obsVars, lockVars>>

\* The caller calls file_ensure_directory_ex again with the same path.
D_Again ==
  /\ d_pc = "done"
  /\ d_calls < MaxCalls
  /\ d_pc' = "entry"
  /\ tmp' = <<>> /\ p' = 0 /\ d_genuine' = FALSE /\ d_created' = <<>>
  /\ UNCHANGED <<path, pathNull, dirs, lastError, d_retc, d_ret, d_calls,
                 d_rets>>
  /\ UNCHANGED <<streamVars, gsVars, wVars, sdVars, obsVars, lockVars>>

PathsUpTo(n) == UNION {[1..k -> Chars] : k \in 0..n}

\* A relative path of non-empty components with single separators between
\* them and at most one trailing separator.
WellFormed(q) ==
  /\ q # <<>> /\ q[1] \notin Seps
  /\ \A k \in 1..(Len(q) - 1) : ~(q[k] \in Seps /\ q[k + 1] \in Seps)

\* file_ensure_directory_ex called on a fresh root with NULL, with the
\* empty string or with any well-formed path of up to MaxPathLen characters.
InitDir ==
  /\ d_pc = "entry"
  /\ path \in {q \in PathsUpTo(MaxPathLen) : q = <<>> \/ WellFormed(q)}
  /\ pathNull \in BOOLEAN /\ (pathNull => path = <<>>)
  /\ tmp = <<>> /\ p = 0 /\ dirs = {} /\ lastError = "NONE" /\ d_retc = 0
  /\ d_ret = 0 /\ d_calls = 0 /\ d_rets = <<>> /\ d_genuine = FALSE
  /\ d_created = <<>>
  /\ StreamIdle /\ GSIdle /\ WIdle /\ SDIdle /\ ObsIdle /\ LockIdle

NextDir == D_Entry \/ D_Scan \/ D_Leaf \/ D_Again

SpecDir == InitDir /\ [][NextDir]_vars

\* C4: file_ensure_directory_ex is idempotent: a first call on a fresh root
\* that meets no creation error creates every component and returns 0, and
\* a second call with the same path, every component existing, returns 0.
C4_Idempotent ==
  /\ Len(d_rets) >= 1 /\ d_rets[1].reached /\ ~d_rets[1].genuine
       => d_rets[1].ret = 0
  /\ Len(d_rets) >= 2 /\ d_rets[1].ret = 0 /\ d_rets[2].reached
       /\ d_rets[2].existed /\ Len(Components(path)) >= 2
       => d_rets[2].ret = 0

\* C5: file_ensure_directory_ex returns -1 if and only if creating a path
\* component failed for a reason other than "already exists".
C5_ErrorIffGenuineFailure ==
  d_pc = "done" /\ tmp # <<>> => (d_ret = -1 <=> d_genuine)

\* =========================================================================
\* file_lock / file_unlock
\* =========================================================================

Handles == 1..NumHandles

\* A LockFileEx request by handle h is incompatible with a lock another
\* handle holds on the same range: an exclusive lock excludes every other
\* lock, a shared lock excludes exclusive ones.
Conflict(h, exclusive) ==
  \E g \in Handles \ {h} :
    l_held[g] = "excl" \/ (exclusive /\ l_held[g] = "shared")

\* Lines 124-130.  LockFileEx is called with LOCKFILE_EXCLUSIVE_LOCK or 0,
\* never with LOCKFILE_FAIL_IMMEDIATELY: on a conflict the call waits.  The
\* call is made by a handle that holds no lock of its own.
FileLock(h) ==
  /\ l_pc[h] = "idle" /\ l_held[h] = "none"
  /\ \E fpnull \in BOOLEAN, exclusive \in BOOLEAN, oserr \in BOOLEAN :
       /\ l_req' = [l_req EXCEPT ![h] = exclusive]
       /\ l_waited' = [l_waited EXCEPT
                         ![h] = ~(fpnull \/ oserr) /\ Conflict(h, exclusive)]
       /\ IF fpnull \/ oserr
            THEN /\ l_ret' = [l_ret EXCEPT ![h] = -1]
                 /\ UNCHANGED <<l_pc, l_held>>
            ELSE IF ~Conflict(h, exclusive)
              THEN /\ l_held' = [l_held EXCEPT
                                   ![h] = IF exclusive THEN "excl" ELSE "shared"]
                   /\ l_ret' = [l_ret EXCEPT ![h] = 0]
                   /\ UNCHANGED l_pc
              ELSE /\ l_pc' = [l_pc EXCEPT ![h] = "waiting"]
                   /\ UNCHANGED <<l_held, l_ret>>
  /\ UNCHANGED <<streamVars, gsVars, wVars, sdVars, obsVars, dirVars>>

\* The waiting LockFileEx call is granted once no conflicting lock is left.
LockFileExGranted(h) ==
  /\ l_pc[h] = "waiting"
  /\ ~Conflict(h, l_req[h])
  /\ l_held' = [l_held EXCEPT ![h] = IF l_req[h] THEN "excl" ELSE "shared"]
  /\ l_ret' = [l_ret EXCEPT ![h] = 0]
  /\ l_pc' = [l_pc EXCEPT ![h] = "idle"]
  /\ UNCHANGED <<l_req, l_waited>>
  /\ UNCHANGED <<streamVars, gsVars, wVars, sdVars, obsVars, dirVars>>

\* Lines 137-143: UnlockFileEx fails when the handle holds no lock.
FileUnlock(h) ==
  /\ l_pc[h] = "idle"
  /\ \E fpnull \in BOOLEAN :
       IF fpnull \/ l_held[h] = "none"
         THEN l_ret' = [l_ret EXCEPT ![h] = -1] /\ UNCHANGED l_held
         ELSE /\ l_held' = [l_held EXCEPT ![h] = "none"]
              /\ l_ret' = [l_ret EXCEPT ![h] = 0]
  /\ UNCHANGED <<l_pc, l_req, l_waited>>
  /\ UNCHANGED <<streamVars, gsVars, wVars, sdVars, obsVars, dirVars>>

InitLock ==
  /\ l_pc = [h \in Handles |-> "idle"]
  /\ l_held = [h \in Handles |-> "none"]
  /\ l_req = [h \in Handles |-> FALSE]
  /\ l_ret = [h \in Handles |-> 0]
  /\ l_waited = [h \in Handles |-> FALSE]
  /\ exists = TRUE /\ fsize = 0 /\ zeroed = {} /\ fp = "open" /\ pos = 0
  /\ ferr = FALSE /\ flushed = TRUE
  /\ GSIdle /\ WIdle /\ SDIdle /\ ObsIdle /\ DirIdle

NextLock ==
  \E h \in Handles : FileLock(h) \/ LockFileExGranted(h) \/ FileUnlock(h)

SpecLock == InitLock /\ [][NextLock]_vars

\* C6: file_lock never waits: while one handle holds an exclusive lock, an
\* exclusive file_lock call by another handle returns -1 at once and is
\* never blocked until the holder releases.
C6_LockNeverWaits ==
  \A h \in DOMAIN l_pc :
    (l_pc[h] = "waiting" \/ l_waited[h]) =>
      ~(l_req[h] /\ \E g \in Handles \ {h} : l_held[g] = "excl")

====
